---- MODULE Spec2Model ----
(***************************************************************************)
(* Model of the template server of go-example-parseFile (src/src/main.go   *)
(* and the earlier variant of the same program in src/unnamed/part_000).   *)
(*                                                                         *)
(* Strings are sequences of one-character strings, so that the regular     *)
(* expression reTmpl, filepath.Base, filepath.Ext and the slice            *)
(* curSrc[:len(curSrc)-4] are computed on characters as the code does.     *)
(***************************************************************************)
EXTENDS Integers, Sequences, FiniteSets, TLC

VARIABLES
    pc,           \* SpecExtract, SpecDict, SpecResolve: "ready" before the call, "done" after
    content,      \* SpecExtract: the template text given to the extractor
    segs,         \* SpecExtract: the pieces the text was written from
    nameSet,      \* SpecExtract: curTmplSet after the extraction
    values,       \* SpecDict: the argument list of a call of Dict
    dictResult,   \* SpecDict: what the call produced
    fs,           \* the files under src/ and tmpl/: path -> file
    tmplFileList, \* the candidate list initURL collects at startup
    page,         \* SpecResolve: the page file given to the resolver
    result,       \* SpecResolve: the outcome of the resolution
    reqs,         \* Spec, SpecV2: the requests being handled: id -> handler state
    up,           \* Spec, SpecV2: the process is running
    err           \* SpecV2: the variable err of initURL that the handler closure shares

pureVars == <<content, segs, nameSet, values, dictResult>>
resVars == <<page, result>>
srvVars == <<reqs, up, err>>
vars == <<pc, content, segs, nameSet, values, dictResult, fs, tmplFileList, page,
          result, reqs, up, err>>

(***************************************************************************)
(* Bounds of the model.                                                    *)
(***************************************************************************)
MaxSegs == 3
MaxArgs == 4

(***************************************************************************)
(* Characters and small string helpers.                                    *)
(***************************************************************************)
RECURSIVE Concat(_)
Concat(ss) == IF ss = <<>> THEN <<>> ELSE Head(ss) \o Concat(Tail(ss))

Range(f) == { f[i] : i \in DOMAIN f }

MaxOf(S) == CHOOSE x \in S : \A y \in S : y <= x

\* the literal lit stands in s at position i (1-based)
HasAt(s, i, lit) ==
    /\ i >= 1
    /\ i + Len(lit) - 1 <= Len(s)
    /\ \A k \in 1..Len(lit) : s[i + k - 1] = lit[k]

(***************************************************************************)
(* reTmpl, item by item: two opening braces, an optional dash, an optional *)
(* space, the word template and a space, a double quote, the group Name    *)
(* (any run of characters other than the two parentheses and the space),  *)
(* a double quote, an optional space, any run of characters of the line,   *)
(* an optional space, an optional dash, two closing braces.  It is matched *)
(* as Go's regexp does: leftmost, then by preference (every optional item  *)
(* and every run takes as much as it can, earlier items first); the dot    *)
(* does not match a newline, the negated class does.                       *)
(***************************************************************************)
LitOpen == <<"{", "{">>
LitClose == <<"}", "}">>
LitTemplate == <<"t", "e", "m", "p", "l", "a", "t", "e", " ">>
LitQuote == <<"\"">>

\* x? for a single character x: taken whenever it is there
SkipOpt(s, j, c) == IF j <= Len(s) /\ s[j] = c THEN j + 1 ELSE j

\* the character class of the group Name
InNameClass(c) == c \notin {"(", ")", " "}

\* the position after the longest run of [^() ] that starts at p
RECURSIVE NameRunEnd(_, _)
NameRunEnd(s, p) ==
    IF p <= Len(s) /\ InNameClass(s[p]) THEN NameRunEnd(s, p + 1) ELSE p

\* the position of the first newline at or after q, Len(s)+1 when there is none
RECURSIVE LineEnd(_, _)
LineEnd(s, q) ==
    IF q > Len(s) \/ s[q] = "\n" THEN q ELSE LineEnd(s, q + 1)

\* the items after the closing quote, from position q: the greedy run of
\* any characters reaches the last pair of closing braces of the line; the result is the position after the match, 0 when there is none
RestEnd(s, q) ==
    LET l == LineEnd(s, q)
        ends == { e \in q..(l - 2) : HasAt(s, e, LitClose) }
    IN  IF ends = {} THEN 0 ELSE MaxOf(ends) + 2

\* one attempt of reTmpl at position i: [ok, name, end]
MatchAt(s, i) ==
    LET NoMatch == [ok |-> FALSE, name |-> <<>>, end |-> 0]
    IN
    IF ~HasAt(s, i, LitOpen) THEN NoMatch
    ELSE
      LET j == SkipOpt(s, SkipOpt(s, i + 2, "-"), " ")
      IN
      IF ~(HasAt(s, j, LitTemplate) /\ HasAt(s, j + Len(LitTemplate), LitQuote)) THEN NoMatch
      ELSE
        LET p == j + Len(LitTemplate) + 1
            r == NameRunEnd(s, p)
            \* closing quotes the name may stop at, with the rest matching
            stops == { q \in p..r : /\ q <= Len(s)
                                    /\ s[q] = "\""
                                    /\ RestEnd(s, q + 1) # 0 }
        IN
        IF stops = {} THEN NoMatch
        ELSE LET q == MaxOf(stops)
             IN  [ok |-> TRUE, name |-> SubSeq(s, p, q - 1), end |-> RestEnd(s, q + 1)]

\* reTmpl.FindAllStringSubmatch(s, -1), keeping submatch 1 of every match
RECURSIVE FindAllFrom(_, _)
FindAllFrom(s, pos) ==
    IF pos > Len(s) THEN <<>>
    ELSE LET m == MatchAt(s, pos)
         IN  IF m.ok THEN <<m.name>> \o FindAllFrom(s, m.end)
             ELSE FindAllFrom(s, pos + 1)

FindAllStringSubmatch(s) == FindAllFrom(s, 1)

\* curTmplSet: the names of the match list, each once
CurTmplSet(s) == Range(FindAllStringSubmatch(s))

(***************************************************************************)
(* Template texts the extractor is run on: up to MaxSegs pieces, each a    *)
(* directive in one of the spellings the template language allows or a     *)
(* piece of other text.  dir is the quoted name of a directive piece.      *)
(***************************************************************************)
NameA == <<"a">>
NameB == <<"b">>
NameC == <<"c">>
NoName == <<"-", "none", "-">>

SegPlainA == [text |-> <<"{", "{", "t", "e", "m", "p", "l", "a", "t", "e", " ", "\"", "a", "\"", " ", ".", "}", "}">>,
              dir |-> NameA]
SegBareB == [text |-> <<"{", "{", "t", "e", "m", "p", "l", "a", "t", "e", " ", "\"", "b", "\"", "}", "}">>,
             dir |-> NameB]
SegTrimA == [text |-> <<"{", "{", "-", " ", "t", "e", "m", "p", "l", "a", "t", "e", " ", "\"", "a", "\"", " ", ".", " ", "-", "}", "}">>,
             dir |-> NameA]
SegNewline == [text |-> <<"\n">>, dir |-> NoName]
SegText == [text |-> <<"<", "p", ">", " ">>, dir |-> NoName]
SegAction == [text |-> <<"{", "{", ".", "T", "}", "}">>, dir |-> NoName]

Segments == {SegPlainA, SegBareB, SegTrimA, SegNewline, SegText, SegAction}

SegLists == UNION { [1..n -> Segments] : n \in 0..MaxSegs }

TextOf(ss) == Concat([i \in DOMAIN ss |-> ss[i].text])

\* the quoted names of the directives a text was written with
DirectiveNames(ss) == { ss[i].dir : i \in { k \in DOMAIN ss : ss[k].dir # NoName } }

(***************************************************************************)
(* Dict (the dict template helper).    An argument is [kind, val]: kind is *)
(* the reflect.Kind of the value together with whether its type is the     *)
(* predeclared string type (named is a defined string type, whose Kind     *)
(* is String and which the assertion key.(string) rejects).                *)
(***************************************************************************)
ArgValues ==
    { [kind |-> "string", val |-> "k1"], [kind |-> "string", val |-> "k2"],
      [kind |-> "int", val |-> "1"], [kind |-> "named", val |-> "k1"],
      [kind |-> "nil", val |-> "nil"] }

ArgLists == UNION { [1..n -> ArgValues] : n \in 0..MaxArgs }

KindIsString(v) == v.kind \in {"string", "named"}

EmptyDict == [k \in {} |-> 0]

DictPut(dict, key, val) ==
    [k \in (DOMAIN dict) \cup {key} |-> IF k = key THEN val ELSE dict[k]]

\* the for loop of Dict
RECURSIVE DictLoop(_, _)
DictLoop(vs, dict) ==
    IF Len(vs) < 2 THEN [kind |-> "panic", what |-> "index out of range"]
    ELSE
      LET key == vs[1]
          val == vs[2]
          rest == SubSeq(vs, 3, Len(vs))
      IN
      IF ~KindIsString(key)
      THEN [kind |-> "error", what |-> "type must equal to \"string\""]
      ELSE IF key.kind # "string"
      THEN [kind |-> "panic", what |-> "interface conversion"]
      ELSE LET d == DictPut(dict, key.val, val)
           IN  IF Len(rest) = 0 THEN [kind |-> "ok", dict |-> d]
               ELSE DictLoop(rest, d)

Dict(vs) ==
    IF Len(vs) % 2 # 0
    THEN [kind |-> "error", what |-> "parameters must be even"]
    ELSE DictLoop(vs, EmptyDict)


(***************************************************************************)
(* Paths: path.Join (with path.Clean), filepath.Ext and filepath.Base.     *)
(***************************************************************************)
Slash == "/"
Dot == "."
DotDot == <<".", ".">>

\* the elements of s between slashes
RECURSIVE SplitFrom(_, _, _)
SplitFrom(s, i, cur) ==
    IF i > Len(s) THEN <<cur>>
    ELSE IF s[i] = Slash THEN <<cur>> \o SplitFrom(s, i + 1, <<>>)
    ELSE SplitFrom(s, i + 1, Append(cur, s[i]))

\* path.Clean on the elements: empty and . elements go, .. takes back one
RECURSIVE CleanFold(_, _, _)
CleanFold(elems, out, rooted) ==
    IF elems = <<>> THEN out
    ELSE LET e == Head(elems)
             rest == Tail(elems)
         IN  IF e = <<>> \/ e = <<Dot>> THEN CleanFold(rest, out, rooted)
             ELSE IF e = DotDot
             THEN IF out # <<>> /\ out[Len(out)] # DotDot
                  THEN CleanFold(rest, SubSeq(out, 1, Len(out) - 1), rooted)
                  ELSE IF rooted THEN CleanFold(rest, out, rooted)
                  ELSE CleanFold(rest, Append(out, e), rooted)
             ELSE CleanFold(rest, Append(out, e), rooted)

RECURSIVE JoinElems(_)
JoinElems(elems) ==
    IF elems = <<>> THEN <<>>
    ELSE IF Len(elems) = 1 THEN elems[1]
    ELSE elems[1] \o <<Slash>> \o JoinElems(Tail(elems))

Clean(s) ==
    IF s = <<>> THEN <<Dot>>
    ELSE LET rooted == s[1] = Slash
             body == JoinElems(CleanFold(SplitFrom(s, 1, <<>>), <<>>, rooted))
         IN  IF rooted THEN <<Slash>> \o body
             ELSE IF body = <<>> THEN <<Dot>> ELSE body

\* path.Join(a, b) for non-empty a and b
Join(a, b) == Clean(a \o <<Slash>> \o b)

\* filepath.Ext: from the last dot of the last element, empty without one
RECURSIVE ExtFrom(_, _)
ExtFrom(s, i) ==
    IF i < 1 \/ s[i] = Slash THEN <<>>
    ELSE IF s[i] = Dot THEN SubSeq(s, i, Len(s))
    ELSE ExtFrom(s, i - 1)

Ext(s) == ExtFrom(s, Len(s))

\* filepath.Base: the last element, trailing slashes dropped
RECURSIVE StripSlashes(_)
StripSlashes(s) ==
    IF s # <<>> /\ s[Len(s)] = Slash THEN StripSlashes(SubSeq(s, 1, Len(s) - 1)) ELSE s

Base(s) ==
    IF s = <<>> THEN <<Dot>>
    ELSE LET t == StripSlashes(s)
         IN  IF t = <<>> THEN <<Slash>>
             ELSE LET elems == SplitFrom(t, 1, <<>>) IN elems[Len(elems)]

(***************************************************************************)
(* Files.  A file is described by what its text holds: the names it        *)
(* includes (one directive per line, or all on one line), and for a page   *)
(* the call of dict it makes; FileText is the text itself, which is what   *)
(* the program reads.                                                      *)
(***************************************************************************)
Names == {NameA, NameB, NameC}
NameOrder == <<NameA, NameB, NameC>>
DictUses == {"none", "good", "odd", "nonstring", "empty"}

DirText(n) == <<"{", "{", "t", "e", "m", "p", "l", "a", "t", "e", " ", "\"">> \o n \o <<"\"", " ", ".", "}", "}">>

DictText(use) ==
    CASE use = "good" -> <<"{", "{", "d", "i", "c", "t", " ", "\"", "k", "1", "\"", " ", "1", "}", "}">>
      [] use = "odd" -> <<"{", "{", "d", "i", "c", "t", " ", "\"", "k", "1", "\"", "}", "}">>
      [] use = "nonstring" -> <<"{", "{", "d", "i", "c", "t", " ", "1", " ", "1", "}", "}">>
      [] use = "empty" -> <<"{", "{", "d", "i", "c", "t", "}", "}">>
      [] OTHER -> <<>>

\* the arguments the template engine calls Dict with
DictArgs(use) ==
    CASE use = "good" -> <<[kind |-> "string", val |-> "k1"], [kind |-> "int", val |-> "1"]>>
      [] use = "odd" -> <<[kind |-> "string", val |-> "k1"]>>
      [] use = "nonstring" -> <<[kind |-> "int", val |-> "1"], [kind |-> "int", val |-> "1"]>>
      [] OTHER -> <<>>

FileText(f) ==
    Concat([i \in 1..Len(NameOrder) |->
              IF NameOrder[i] \in f.refs
              THEN DirText(NameOrder[i]) \o (IF f.inline THEN <<" ">> ELSE <<"\n">>)
              ELSE <<>>])
    \o <<"<", "p", ">">> \o DictText(f.dict)

MissingFile == [exists |-> FALSE, refs |-> {}, inline |-> FALSE, dict |-> "none"]

TextFile(refs, inline, dict) ==
    [exists |-> TRUE, refs |-> refs, inline |-> inline, dict |-> dict]

FileKinds == [exists : {TRUE}, refs : SUBSET Names, inline : BOOLEAN, dict : DictUses]

\* UrlFS.ReadFile / os.ReadFile
ReadFile(files, path) ==
    IF path \in DOMAIN files /\ files[path].exists
    THEN [err |-> FALSE, file |-> files[path]]
    ELSE [err |-> TRUE, file |-> MissingFile]

\* curTmplSet of every text a file can hold, computed once
CurTmplSetOf == [f \in FileKinds |-> CurTmplSet(FileText(f))]

(***************************************************************************)
(* CollectFilesFromFS / CollectFiles over the tree under tmpl.             *)
(***************************************************************************)
FileEntry(n) == [name |-> n, isDir |-> FALSE, entries |-> <<>>]
DirEntry(n, es) == [name |-> n, isDir |-> TRUE, entries |-> es]

TmplDir == <<"t", "m", "p", "l">>
TmplEntries == <<FileEntry(NameA), FileEntry(NameB), FileEntry(NameC),
                 DirEntry(<<"x">>, <<FileEntry(NameA)>>)>>

RECURSIVE CollectFiles(_, _, _)
CollectFiles(dirName, entries, isRecursive) ==
    IF entries = <<>> THEN <<>>
    ELSE LET e == Head(entries)
             here == IF e.isDir
                     THEN IF isRecursive
                          THEN CollectFiles(Join(dirName, e.name), e.entries, isRecursive)
                          ELSE <<>>
                     ELSE <<Join(dirName, e.name)>>
         IN  here \o CollectFiles(dirName, Tail(entries), isRecursive)

(***************************************************************************)
(* getAllTmplName.  depth counts the calls below the page's; the list has  *)
(* Len(allTmpl) files, so a chain of more calls than that holds one file   *)
(* twice: that call repeats itself forever and the goroutine's stack runs  *)
(* out, which ends the process.                                            *)
(***************************************************************************)
StackExhausted(depth, allTmpl) == depth > Len(allTmpl)

RECURSIVE getAllTmplName(_, _, _, _)
RECURSIVE SelectUsed(_, _, _, _, _)

\* the loop without the call for the templates of a template
RECURSIVE SelectUsedFlat(_, _, _, _, _)
SelectUsedFlat(files, curTmplSet, allTmpl, i, depth) ==
    IF i > Len(allTmpl) THEN [err |-> "nil", list |-> <<>>]
    ELSE IF Base(allTmpl[i]) \in curTmplSet
    THEN [err |-> "nil",
          list |-> <<allTmpl[i]>>
                   \o SelectUsedFlat(files, curTmplSet, allTmpl, i + 1, depth).list]
    ELSE SelectUsedFlat(files, curTmplSet, allTmpl, i + 1, depth)

\* the loop over allTmpl, from index i on; the error of the nested call is
\* dropped, and where it failed its list is empty
SelectUsed(files, curTmplSet, allTmpl, i, depth) ==
    IF i > Len(allTmpl) THEN [err |-> "nil", list |-> <<>>]
    ELSE IF Base(allTmpl[i]) \in curTmplSet
    THEN LET sub == getAllTmplName(files, allTmpl[i], allTmpl, depth + 1)
         IN  IF sub.err = "overflow" THEN sub
             ELSE LET rest == SelectUsed(files, curTmplSet, allTmpl, i + 1, depth)
                  IN  IF rest.err = "overflow" THEN rest
                      ELSE [err |-> "nil", list |-> <<allTmpl[i]>> \o sub.list \o rest.list]
    ELSE SelectUsed(files, curTmplSet, allTmpl, i + 1, depth)

getAllTmplName(files, filePath, allTmpl, depth) ==
    IF StackExhausted(depth, allTmpl) THEN [err |-> "overflow", list |-> <<>>]
    ELSE LET rd == ReadFile(files, filePath)
         IN  IF rd.err THEN [err |-> "read", list |-> <<>>]
             ELSE LET curTmplSet == CurTmplSetOf[rd.file]
                  IN  IF curTmplSet = {} THEN [err |-> "nil", list |-> <<>>]
                      ELSE SelectUsed(files, curTmplSet, allTmpl, 1, depth)

\* the handler's call of the resolver and the append of the page itself
ResolveBundle(files, curSrc, allTmpl) ==
    LET r == getAllTmplName(files, curSrc, allTmpl, 0)
    IN  IF r.err = "overflow" THEN [outcome |-> "overflow", bundle |-> <<>>]
        ELSE IF r.err # "nil" THEN [outcome |-> "error", bundle |-> <<>>]
        ELSE [outcome |-> "ok", bundle |-> Append(r.list, curSrc)]

(***************************************************************************)
(* The sites the resolver is run on: every choice of texts for the files   *)
(* of tmplFileList (each one may also have been removed since startup)     *)
(* and for the page.                                                       *)
(***************************************************************************)
PagePath == <<"s", "r", "c", "/", "i", "n", "d", "e", "x", ".", "g", "o", "h", "t", "m", "l">>
TmplPaths == Range(CollectFiles(TmplDir, TmplEntries, TRUE))

TmplFileChoices == { TextFile(refs, FALSE, "none") : refs \in SUBSET Names } \cup {MissingFile}
PageFileChoices ==
    { TextFile(refs, FALSE, "none") : refs \in SUBSET Names }
    \cup { TextFile(refs, TRUE, "none") : refs \in { r \in SUBSET Names : Cardinality(r) > 1 } }
    \cup {MissingFile}

ResolveSites ==
    { [p \in TmplPaths \cup {PagePath} |-> IF p = PagePath THEN pg ELSE t[p]] :
        t \in [TmplPaths -> TmplFileChoices], pg \in PageFileChoices }

NoResult == [outcome |-> "none", bundle |-> <<>>]

(***************************************************************************)
(* SpecExtract: the extractor applied to a text.                           *)
(***************************************************************************)
InitExtract ==
    /\ pc = "ready"
    /\ segs \in SegLists
    /\ content = TextOf(segs)
    /\ nameSet = {}
    /\ values = <<>>
    /\ dictResult = [kind |-> "none"]
    /\ fs = <<>>
    /\ tmplFileList = <<>>
    /\ page = <<>>
    /\ result = NoResult
    /\ reqs = <<>>
    /\ up = TRUE
    /\ err = "nil"

Extract ==
    /\ pc = "ready"
    /\ pc' = "done"
    /\ nameSet' = CurTmplSet(content)
    /\ UNCHANGED <<content, segs, values, dictResult, fs, tmplFileList, resVars, srvVars>>

NextExtract == Extract

SpecExtract == InitExtract /\ [][NextExtract]_vars

(***************************************************************************)
(* SpecDict: Dict applied to an argument list.                             *)
(***************************************************************************)
InitDict ==
    /\ pc = "ready"
    /\ values \in ArgLists
    /\ dictResult = [kind |-> "none"]
    /\ segs = <<>>
    /\ content = <<>>
    /\ nameSet = {}
    /\ fs = <<>>
    /\ tmplFileList = <<>>
    /\ page = <<>>
    /\ result = NoResult
    /\ reqs = <<>>
    /\ up = TRUE
    /\ err = "nil"

CallDict ==
    /\ pc = "ready"
    /\ pc' = "done"
    /\ dictResult' = Dict(values)
    /\ UNCHANGED <<content, segs, nameSet, values, fs, tmplFileList, resVars, srvVars>>

NextDict == CallDict

SpecDict == InitDict /\ [][NextDict]_vars

(***************************************************************************)
(* SpecResolve: the resolver applied to a page of a site.                  *)
(***************************************************************************)
InitResolve ==
    /\ pc = "ready"
    /\ tmplFileList = CollectFiles(TmplDir, TmplEntries, TRUE)
    /\ fs \in ResolveSites
    /\ page = PagePath
    /\ result = NoResult
    /\ segs = <<>>
    /\ content = <<>>
    /\ nameSet = {}
    /\ values = <<>>
    /\ dictResult = [kind |-> "none"]
    /\ reqs = <<>>
    /\ up = TRUE
    /\ err = "nil"

ResolvePage ==
    /\ pc = "ready"
    /\ pc' = "done"
    /\ result' = ResolveBundle(fs, page, tmplFileList)
    /\ UNCHANGED <<pureVars, fs, tmplFileList, page, srvVars>>

NextResolve == ResolvePage

SpecResolve == InitResolve /\ [][NextResolve]_vars

(***************************************************************************)
(* The handler of the pattern / in main.go, one request per goroutine.     *)
(* A request's state is the handler's position and its local variables     *)
(* together with what it has written to its ResponseWriter: status is 0    *)
(* until the header is written, body is what was written after it.         *)
(***************************************************************************)
MaxReqs == 2
Requests == 1..MaxReqs

StatusOK == 200
StatusBadRequest == 400

SrcDir == <<".", "/", "s", "r", "c">>
IndexHtml == <<"i", "n", "d", "e", "x", ".", "h", "t", "m", "l">>
ExtHtml == <<".", "h", "t", "m", "l">>
ExtGohtml == <<".", "g", "o", "h", "t", "m", "l">>
Gohtml == <<"g", "o", "h", "t", "m", "l">>

IdleReq ==
    [pc |-> "idle", path |-> <<>>, curSrc |-> <<>>, filterTmpl |-> <<>>,
     status |-> 0, ctype |-> "", body |-> "none", resolveArg |-> <<>>,
     compiled |-> FALSE, executed |-> FALSE, dictCalled |-> FALSE,
     execErr |-> FALSE, panicked |-> FALSE, content |-> MissingFile, tOK |-> FALSE,
     t |-> <<>>, pageGone |-> FALSE, frames |-> <<>>, callPath |-> <<>>, parsed |-> 0]

NewReq(urlPath) == [IdleReq EXCEPT !.pc = "route", !.path = urlPath]

\* the cut one character too long
HtmlToGohtmlCut5(curSrc) == SubSeq(curSrc, 1, Len(curSrc) - 5) \o Gohtml

\* curSrc[:len(curSrc)-4] + gohtml
HtmlToGohtml(curSrc) == SubSeq(curSrc, 1, Len(curSrc) - 4) \o Gohtml

\* the switch on filepath.Ext(r.URL.Path): the page file, or no page at all
MapPath(urlPath) ==
    LET joined == Join(SrcDir, urlPath)
        ext == Ext(urlPath)
    IN  IF ext = <<>>
        THEN [render |-> TRUE, curSrc |-> HtmlToGohtml(Join(joined, IndexHtml))]
        ELSE IF ext = ExtHtml
        THEN [render |-> TRUE, curSrc |-> HtmlToGohtml(joined)]
        ELSE IF ext = ExtGohtml
        THEN [render |-> TRUE, curSrc |-> joined]
        ELSE [render |-> FALSE, curSrc |-> joined]

\* the file whose text is the template called name after ParseFiles: each
\* file is parsed under its base name, and a later file of the bundle
\* replaces an earlier one of the same name (no text here is empty)
DefinedBy(bundle, name) ==
    bundle[MaxOf({ i \in DOMAIN bundle : Base(bundle[i]) = name })]

TemplateNames(bundle) == { Base(bundle[i]) : i \in DOMAIN bundle }

\* t.ParseFS / t.ParseFiles: every file of the bundle is read and parsed;
\* t is the set of templates by name, or nil when a file could not be read
ParseFiles(files, bundle) ==
    IF \E i \in DOMAIN bundle : ReadFile(files, bundle[i]).err
    THEN [err |-> TRUE, t |-> <<>>]
    ELSE [err |-> FALSE,
          t |-> [n \in TemplateNames(bundle) |-> files[DefinedBy(bundle, n)]]]

\* the names the escaper of html/template walks before the first write:
\* the executed template and every template reached from it by a
\* template action, defined or not
RECURSIVE EscapeReach(_, _)
EscapeReach(t, S) ==
    IF UNION { t[n].refs : n \in S \cap DOMAIN t } \subseteq S THEN S
    ELSE EscapeReach(t, S \cup UNION { t[n].refs : n \in S \cap DOMAIN t })

\* the execution of the template called name: its template actions in the
\* order of the text, each followed by text, then the markup, then the
\* call of dict.  A template that is running already runs again without
\* end, which the engine stops at its depth limit with an error.
RECURSIVE ExecTemplate(_, _, _)
RECURSIVE ExecActions(_, _, _, _)
ExecTemplate(t, name, stack) ==
    IF name \in stack THEN [err |-> TRUE, dictCalled |-> FALSE, wrote |-> FALSE]
    ELSE ExecActions(t, t[name], 1, stack \cup {name})

ExecAfter(sub, rest) ==
    IF sub.err THEN sub
    ELSE [err |-> rest.err, dictCalled |-> sub.dictCalled \/ rest.dictCalled, wrote |-> TRUE]

ExecActions(t, f, i, stack) ==
    IF i > Len(NameOrder)
    THEN [err |-> f.dict # "none" /\ Dict(DictArgs(f.dict)).kind # "ok",
          dictCalled |-> f.dict # "none",
          wrote |-> TRUE]
    ELSE IF NameOrder[i] \notin f.refs THEN ExecActions(t, f, i + 1, stack)
    ELSE ExecAfter(ExecTemplate(t, NameOrder[i], stack), ExecActions(t, f, i + 1, stack))

ExecOutcome(ex) ==
    [err |-> ex.err, dictCalled |-> ex.dictCalled,
     body |-> IF ~ex.err THEN "full" ELSE IF ex.wrote THEN "partial" ELSE "none"]

\* t.Execute: the escaper first fails on a reached template that no file
\* of the bundle defines, before anything is written; then the output is
\* written as the execution goes, up to the first error
ExecuteTemplate(t, name) ==
    IF \E n \in EscapeReach(t, {name}) : n \notin DOMAIN t
    THEN [err |-> TRUE, dictCalled |-> FALSE, body |-> "none"]
    ELSE ExecOutcome(ExecTemplate(t, name, {}))

\* curSrc and the switch on filepath.Ext(r.URL.Path); in the page cases the
\* resolver is called on curSrc next
RouteStep(req) ==
    IF MapPath(req.path).render
    THEN [req EXCEPT !.curSrc = MapPath(req.path).curSrc,
                     !.callPath = MapPath(req.path).curSrc, !.pc = "resolve"]
    ELSE [req EXCEPT !.curSrc = MapPath(req.path).curSrc, !.pc = "static"]

(***************************************************************************)
(* getAllTmplName as the handler runs it, one read of a file at a time.    *)
(* frames holds the calls that wait in their loop for a nested call, the   *)
(* page's first: the file, its curTmplSet, the index of the loop and       *)
(* filterTmpl so far.                                                      *)
(***************************************************************************)
Frame(path, set) == [path |-> path, set |-> set, i |-> 1, list |-> <<>>]
Top(frames) == frames[Len(frames)]
Front(frames) == SubSeq(frames, 1, Len(frames) - 1)

\* where the resolver is after a read and the statements behind it
Calling(frames, path) == [kind |-> "call", frames |-> frames, call |-> path, list |-> <<>>]
ResolverDone(list) == [kind |-> "done", frames |-> <<>>, call |-> <<>>, list |-> list]
ResolverFailed == [kind |-> "error", frames |-> <<>>, call |-> <<>>, list |-> <<>>]
ResolverOverflow == [kind |-> "overflow", frames |-> <<>>, call |-> <<>>, list |-> <<>>]

\* the loop over allTmpl of the newest call, up to its next call of
\* getAllTmplName; a call whose loop is over returns filterTmpl to its
\* caller, which appends it and goes on with its own loop
RECURSIVE LoopOn(_, _)
RECURSIVE ReturnTo(_, _, _)
LoopOn(allTmpl, frames) ==
    IF Top(frames).i > Len(allTmpl)
    THEN ReturnTo(allTmpl, Front(frames), Top(frames).list)
    ELSE IF Base(allTmpl[Top(frames).i]) \in Top(frames).set
    THEN Calling([frames EXCEPT ![Len(frames)].list = Append(@, allTmpl[Top(frames).i])],
                 allTmpl[Top(frames).i])
    ELSE LoopOn(allTmpl, [frames EXCEPT ![Len(frames)].i = @ + 1])

ReturnTo(allTmpl, frames, fList) ==
    IF frames = <<>> THEN ResolverDone(fList)
    ELSE LoopOn(allTmpl, [frames EXCEPT ![Len(frames)].list = @ \o fList,
                                        ![Len(frames)].i = @ + 1])

\* the error of a nested read returned through every caller
ReadFailedPropagating(allTmpl, frames) == ResolverFailed

\* if err != nil { return }: the page's call hands the error to the
\* handler, a nested call to its caller, which drops it
ReadFailed(allTmpl, frames) ==
    IF frames = <<>> THEN ResolverFailed ELSE ReturnTo(allTmpl, frames, <<>>)

\* one call of getAllTmplName from its read on
ResolverRead(files, allTmpl, frames, path) ==
    IF StackExhausted(Len(frames), allTmpl) THEN ResolverOverflow
    ELSE IF ReadFile(files, path).err THEN ReadFailed(allTmpl, frames)
    ELSE IF CurTmplSetOf[ReadFile(files, path).file] = {} THEN ReturnTo(allTmpl, frames, <<>>)
    ELSE LoopOn(allTmpl, Append(frames, Frame(path, CurTmplSetOf[ReadFile(files, path).file])))

\* what the handler does with the resolver's step: nothing while calls are
\* open, then the check of err and the append of curSrc; a recursion
\* that does not end takes the process down
ResolveOutcome(req, out) ==
    CASE out.kind = "call" -> [req EXCEPT !.frames = out.frames, !.callPath = out.call]
      [] out.kind = "done" ->
            [req EXCEPT !.frames = <<>>, !.callPath = <<>>, !.pc = "parse",
                        !.filterTmpl = Append(out.list, req.curSrc)]
      [] out.kind = "error" ->
            [req EXCEPT !.frames = <<>>, !.callPath = <<>>, !.pc = "done",
                        !.status = StatusBadRequest]
      [] OTHER -> [req EXCEPT !.frames = <<>>, !.callPath = <<>>, !.pc = "crashed"]

\* case .gohtml: the header, then the resolver up to and with its next read
ResolveStep(files, allTmpl, req) ==
    ResolveOutcome([req EXCEPT !.ctype = "text/html; charset=utf-8", !.resolveArg = req.curSrc],
                   ResolverRead(files, allTmpl, req.frames, req.callPath))

\* the resolver run from a step to its end on files that do not change
RECURSIVE ResolveAll(_, _, _)
ResolveAll(files, allTmpl, req) ==
    IF req.pc # "resolve" THEN req
    ELSE ResolveAll(files, allTmpl, ResolveStep(files, allTmpl, req))

\* template.New(...).Funcs(...) and ParseFS / ParseFiles, one file of the
\* bundle at a time: the file is read and parsed under its base name, in
\* the place of an earlier file of that name; a file that cannot be read
\* ends the parse with the error branch of the handler
ParseStep(files, req) ==
    IF ReadFile(files, req.filterTmpl[req.parsed + 1]).err
    THEN [req EXCEPT !.compiled = TRUE, !.pc = "done", !.status = StatusBadRequest,
                     !.body = "error", !.t = <<>>, !.parsed = 0]
    ELSE IF req.parsed + 1 = Len(req.filterTmpl)
    THEN [req EXCEPT !.compiled = TRUE, !.tOK = TRUE, !.parsed = 0, !.pc = "execute",
                     !.t = (Base(req.filterTmpl[req.parsed + 1])
                              :> ReadFile(files, req.filterTmpl[req.parsed + 1]).file) @@ @]
    ELSE [req EXCEPT !.compiled = TRUE, !.parsed = @ + 1,
                     !.t = (Base(req.filterTmpl[req.parsed + 1])
                              :> ReadFile(files, req.filterTmpl[req.parsed + 1]).file) @@ @]

\* the parse run to its end on files that do not change
RECURSIVE ParseAll(_, _)
ParseAll(files, req) ==
    IF req.pc # "parse" THEN req ELSE ParseAll(files, ParseStep(files, req))

\* t.Execute with its error answered by a 400
ExecuteStepReporting(req) ==
    LET ex == ExecuteTemplate(req.t, Base(req.curSrc))
    IN  [req EXCEPT !.pc = "done", !.executed = TRUE, !.dictCalled = ex.dictCalled,
                    !.execErr = ex.err,
                    !.status = IF ex.err THEN StatusBadRequest ELSE StatusOK,
                    !.body = ex.body]

\* t.Execute(w, Config.Context): the error is dropped, and the header goes
\* out with the first write or when the handler returns
ExecuteStep(req) ==
    LET ex == ExecuteTemplate(req.t, Base(req.curSrc))
    IN  [req EXCEPT !.pc = "done", !.executed = TRUE, !.dictCalled = ex.dictCalled,
                    !.execErr = ex.err, !.status = StatusOK, !.body = ex.body]

\* the default case: the file server is built and dropped, nothing is
\* written, and the header goes out when the handler returns
StaticStep(req) == [req EXCEPT !.pc = "done", !.status = StatusOK]

\* the handler of main.go run from its first statement to its return with
\* nothing else running in between
ThenExecute(parsed) ==
    IF parsed.pc = "execute" THEN ExecuteStep(parsed) ELSE parsed

ThenRender(files, allTmpl, routed) ==
    IF routed.pc = "static" THEN StaticStep(routed)
    ELSE ThenExecute(ParseAll(files, ResolveAll(files, allTmpl, routed)))

HandleRoot(files, allTmpl, req) == ThenRender(files, allTmpl, RouteStep(req))

(***************************************************************************)
(* The sites the server runs on and the paths it is asked for.             *)
(***************************************************************************)
PathRoot == <<"/">>
PathAHtml == <<"/", "a", ".", "h", "t", "m", "l">>
PathDir == <<"/", "d", "/">>
PathCss == <<"/", "s", ".", "c", "s", "s">>
PathMissing == <<"/", "m", ".", "g", "o", "h", "t", "m", "l">>
PathDotted == <<"/", "d", ".", "e", "/", "f">>

RequestPaths == {PathRoot, PathAHtml, PathDir, PathCss, PathMissing, PathDotted}

PageA == <<"s", "r", "c", "/", "a", ".", "g", "o", "h", "t", "m", "l">>
PageD == <<"s", "r", "c", "/", "d", "/", "i", "n", "d", "e", "x", ".", "g", "o", "h", "t", "m", "l">>
PagePaths == {PagePath, PageA, PageD}

TmplA == <<"t", "m", "p", "l", "/", "a">>
TmplB == <<"t", "m", "p", "l", "/", "b">>
TmplC == <<"t", "m", "p", "l", "/", "c">>
TmplXA == <<"t", "m", "p", "l", "/", "x", "/", "a">>

\* a -> b -> c; the same with tmpl/b removed since startup; a <-> b
TmplChain ==
    (TmplA :> TextFile({NameB}, FALSE, "none")) @@ (TmplB :> TextFile({NameC}, FALSE, "none"))
    @@ (TmplC :> TextFile({}, FALSE, "none")) @@ (TmplXA :> TextFile({}, FALSE, "none"))
TmplRemoved == (TmplB :> MissingFile) @@ TmplChain
TmplCycle == (TmplB :> TextFile({NameA}, FALSE, "none")) @@ TmplChain
\* tmpl/a includes nothing
TmplLeafA == (TmplA :> TextFile({}, FALSE, "none")) @@ TmplChain

\* the index page: no template and each use of dict, or one template
IndexChoices ==
    { TextFile({}, FALSE, d) : d \in DictUses }
    \cup { TextFile({NameA}, FALSE, "none") }

SiteOf(idx, t) ==
    (PagePath :> idx) @@ (PageA :> TextFile({NameC}, FALSE, "none"))
    @@ (PageD :> TextFile({}, FALSE, "good")) @@ t

ServerSites ==
    { SiteOf(idx, TmplChain) : idx \in IndexChoices }
    \cup { SiteOf(TextFile({NameA}, FALSE, "none"), t) : t \in {TmplRemoved, TmplCycle} }
    \cup { SiteOf(TextFile({NameA, NameC}, TRUE, "none"), TmplLeafA) }

\* the files that may go away while the server runs
Removable == {PagePath}

(***************************************************************************)
(* Spec: the server of main.go.                                            *)
(***************************************************************************)
Init ==
    /\ tmplFileList = CollectFiles(TmplDir, TmplEntries, TRUE)
    /\ fs \in ServerSites
    /\ reqs = [r \in Requests |-> IdleReq]
    /\ up = TRUE
    /\ err = "nil"
    /\ pc = "serving"
    /\ page = <<>>
    /\ result = NoResult
    /\ segs = <<>>
    /\ content = <<>>
    /\ nameSet = {}
    /\ values = <<>>
    /\ dictResult = [kind |-> "none"]

\* a request for urlPath reaches the handler
Arrive(r, urlPath) ==
    /\ up
    /\ reqs[r].pc = "idle"
    /\ reqs' = [reqs EXCEPT ![r] = NewReq(urlPath)]
    /\ UNCHANGED <<pc, pureVars, fs, tmplFileList, resVars, up, err>>

\* the handler of request r has taken a step to after; the variables the
\* handler declares are its own, so only its request changes
Stepped(r, after) ==
    /\ reqs' = [reqs EXCEPT ![r] = after]
    /\ UNCHANGED <<pc, pureVars, fs, tmplFileList, resVars, err>>

\* curSrc and the switch; in the default case the handler returns
Route(r) ==
    /\ up
    /\ reqs[r].pc = "route"
    /\ Stepped(r, IF RouteStep(reqs[r]).pc = "static"
                  THEN StaticStep(RouteStep(reqs[r]))
                  ELSE RouteStep(reqs[r]))
    /\ UNCHANGED up

\* one read of the resolver, of the file as it is now, with the statements
\* up to its next read; when the recursion does not end the stack
\* overflows and the process ends, whatever the other handlers are at
Resolve(r) ==
    /\ up
    /\ reqs[r].pc = "resolve"
    /\ Stepped(r, IF reqs[r].frames = <<>>
                  THEN [ResolveStep(fs, tmplFileList, reqs[r])
                          EXCEPT !.pageGone = ReadFile(fs, reqs[r].curSrc).err]
                  ELSE ResolveStep(fs, tmplFileList, reqs[r]))
    /\ up' = (ResolveStep(fs, tmplFileList, reqs[r]).pc # "crashed")

\* one read of ParseFiles, of the file as it is now
Parse(r) ==
    /\ up
    /\ reqs[r].pc = "parse"
    /\ Stepped(r, ParseStep(fs, reqs[r]))
    /\ UNCHANGED up

Execute(r) ==
    /\ up
    /\ reqs[r].pc = "execute"
    /\ Stepped(r, ExecuteStep(reqs[r]))
    /\ UNCHANGED up

\* outside the program, whether it runs or not: a file under ./src is
\* removed; the handlers read the files with os.ReadFile each time, so they
\* see it from then on
Remove(p) ==
    /\ fs[p].exists
    /\ fs' = [fs EXCEPT ![p] = MissingFile]
    /\ UNCHANGED <<pc, pureVars, tmplFileList, resVars, srvVars>>

\* the response is sent and the goroutine ends
Close(r) ==
    /\ up
    /\ reqs[r].pc = "done"
    /\ reqs' = [reqs EXCEPT ![r] = IdleReq]
    /\ UNCHANGED <<pc, pureVars, fs, tmplFileList, resVars, up, err>>

Next ==
    \/ \E r \in Requests :
          \/ \E urlPath \in RequestPaths : Arrive(r, urlPath)
          \/ Route(r)
          \/ Resolve(r)
          \/ Parse(r)
          \/ Execute(r)
          \/ Close(r)
    \/ \E p \in Removable : Remove(p)

Spec == Init /\ [][Next]_vars

(***************************************************************************)
(* The handler of the second program of src/unnamed/part_000.  It finds    *)
(* the templates of the page itself (no nested ones) and assigns the       *)
(* variable err that initURL declares, so every running handler reads and  *)
(* writes the same err; each access of err is a step of its own.           *)
(***************************************************************************)
\* tmplFileList filtered by the names of the page, then the page itself;
\* a page that could not be read has no content and so no names
FilterTmplV2(allTmpl, file, curSrc) ==
    Append(SelectSeq(allTmpl,
                     LAMBDA p : file.exists /\ Base(p) \in CurTmplSetOf[file]),
           curSrc)

\* from the switch to the assignment of content and err
ReadRoutedV2(files, routed, e) ==
    IF routed.pc = "static" THEN [req |-> StaticStep(routed), err |-> e]
    ELSE [req |-> [routed EXCEPT !.ctype = "text/html; charset=utf-8",
                                 !.callPath = <<>>,
                                 !.content = ReadFile(files, routed.curSrc).file,
                                 !.pc = "checkRead"],
          err |-> IF ReadFile(files, routed.curSrc).err THEN "read" ELSE "nil"]

ReadStepV2(files, req, e) == ReadRoutedV2(files, RouteStep(req), e)

\* if err != nil after the read, else the filter up to the append
CheckReadStepV2(allTmpl, req, e) ==
    [req |-> IF e # "nil"
             THEN [req EXCEPT !.pc = "done", !.status = StatusBadRequest]
             ELSE [req EXCEPT !.pc = "parse",
                              !.filterTmpl = FilterTmplV2(allTmpl, req.content, req.curSrc)],
     err |-> e]

\* t, err = t.ParseFS / t.ParseFiles; t is nil when the parse failed
ParseStepV2(files, req, e) ==
    [req |-> [req EXCEPT !.compiled = TRUE,
                         !.tOK = ~ParseFiles(files, req.filterTmpl).err,
                         !.t = ParseFiles(files, req.filterTmpl).t,
                         !.pc = "checkParse"],
     err |-> IF ParseFiles(files, req.filterTmpl).err THEN "parse" ELSE "nil"]

\* if err != nil after the parse: WriteHeader
CheckParseStepV2(req, e) ==
    [req |-> IF e # "nil"
             THEN [req EXCEPT !.pc = "writeErr", !.status = StatusBadRequest]
             ELSE [req EXCEPT !.pc = "execute"],
     err |-> e]

\* w.Write([]byte(err.Error())): a nil err panics, and net/http ends the
\* request without a response
WriteErrStepV2(req, e) ==
    [req |-> IF e = "nil"
             THEN [req EXCEPT !.pc = "done", !.panicked = TRUE]
             ELSE [req EXCEPT !.pc = "done", !.body = "error"],
     err |-> e]

\* t.Execute(w, Config.Context): a nil t panics
ExecuteStepV2(files, req, e) ==
    [req |-> IF req.tOK THEN ExecuteStep(req)
             ELSE [req EXCEPT !.pc = "done", !.panicked = TRUE],
     err |-> e]

\* the step the handler is at
StepV2(files, allTmpl, req, e) ==
    CASE req.pc = "route" -> ReadStepV2(files, req, e)
      [] req.pc = "checkRead" -> CheckReadStepV2(allTmpl, req, e)
      [] req.pc = "parse" -> ParseStepV2(files, req, e)
      [] req.pc = "checkParse" -> CheckParseStepV2(req, e)
      [] req.pc = "writeErr" -> WriteErrStepV2(req, e)
      [] req.pc = "execute" -> ExecuteStepV2(files, req, e)
      [] OTHER -> [req |-> req, err |-> e]

\* the handler run from the state st to its return with no other handler
\* running
RECURSIVE RunAloneV2(_, _, _)
RunAloneV2(files, allTmpl, st) ==
    IF st.req.pc = "done" THEN st.req
    ELSE RunAloneV2(files, allTmpl, StepV2(files, allTmpl, st.req, st.err))

RequestPathsV2 == {PathRoot, PathMissing, PathCss}

SitesV2 ==
    { (PagePath :> idx) @@ (PageA :> TextFile({NameC}, FALSE, "none"))
      @@ (PageD :> TextFile({}, FALSE, "good")) @@ t :
        idx \in {TextFile({}, FALSE, "good"), TextFile({NameB}, FALSE, "none")},
        t \in {TmplChain, TmplRemoved} }

(***************************************************************************)
(* SpecV2: the server of the second program of src/unnamed/part_000.       *)
(***************************************************************************)
InitV2 ==
    /\ tmplFileList = CollectFiles(TmplDir, TmplEntries, TRUE)
    /\ fs \in SitesV2
    /\ reqs = [r \in Requests |-> IdleReq]
    /\ up = TRUE
    /\ err = "nil"
    /\ pc = "serving"
    /\ page = <<>>
    /\ result = NoResult
    /\ segs = <<>>
    /\ content = <<>>
    /\ nameSet = {}
    /\ values = <<>>
    /\ dictResult = [kind |-> "none"]

\* the handler of request r has taken a step to st
SteppedV2(r, st) ==
    /\ reqs' = [reqs EXCEPT ![r] = st.req]
    /\ err' = st.err
    /\ UNCHANGED <<pc, pureVars, fs, tmplFileList, resVars, up>>

ReadV2(r) ==
    /\ up
    /\ reqs[r].pc = "route"
    /\ SteppedV2(r, ReadStepV2(fs, reqs[r], err))

CheckReadV2(r) ==
    /\ up
    /\ reqs[r].pc = "checkRead"
    /\ SteppedV2(r, CheckReadStepV2(tmplFileList, reqs[r], err))

ParseV2(r) ==
    /\ up
    /\ reqs[r].pc = "parse"
    /\ SteppedV2(r, ParseStepV2(fs, reqs[r], err))

CheckParseV2(r) ==
    /\ up
    /\ reqs[r].pc = "checkParse"
    /\ SteppedV2(r, CheckParseStepV2(reqs[r], err))

WriteErrV2(r) ==
    /\ up
    /\ reqs[r].pc = "writeErr"
    /\ SteppedV2(r, WriteErrStepV2(reqs[r], err))

ExecuteV2(r) ==
    /\ up
    /\ reqs[r].pc = "execute"
    /\ SteppedV2(r, ExecuteStepV2(fs, reqs[r], err))

NextV2 ==
    \E r \in Requests :
        \/ \E urlPath \in RequestPathsV2 : Arrive(r, urlPath)
        \/ ReadV2(r)
        \/ CheckReadV2(r)
        \/ ParseV2(r)
        \/ CheckParseV2(r)
        \/ WriteErrV2(r)
        \/ ExecuteV2(r)
        \/ Close(r)

SpecV2 == InitV2 /\ [][NextV2]_vars

(***************************************************************************)
(* The reference graph of a site, as the claims describe it: file f        *)
(* references candidate c when the base filename of c is among the names   *)
(* extracted from the content of f.                                        *)
(***************************************************************************)
BaseOfTmpl == [c \in TmplPaths |-> Base(c)]

References(files, allTmpl, f) ==
    LET rd == ReadFile(files, f)
    IN  IF rd.err THEN {}
        ELSE LET names == CurTmplSetOf[rd.file]
             IN  { c \in Range(allTmpl) : BaseOfTmpl[c] \in names }

RECURSIVE ReachableFrom(_, _, _)
ReachableFrom(files, allTmpl, S) ==
    LET T == S \cup UNION { References(files, allTmpl, f) : f \in S }
    IN  IF T = S THEN S ELSE ReachableFrom(files, allTmpl, T)

\* the candidates reachable from f in one or more steps
Reachable(files, allTmpl, f) ==
    LET first == References(files, allTmpl, f)
    IN  IF first = {} THEN {} ELSE ReachableFrom(files, allTmpl, first)

Cyclic(files, allTmpl, f) ==
    \E c \in Reachable(files, allTmpl, f) : c \in Reachable(files, allTmpl, c)

NoDuplicates(seq) == \A i, j \in DOMAIN seq : seq[i] = seq[j] => i = j

PageReadable == ~ReadFile(fs, page).err

(***************************************************************************)
(* Claims.                                                                 *)
(***************************************************************************)

\* C1: for a page whose references hold a cycle (A includes B by base name
\* and B includes A), getAllTmplName terminates and the bundle holds each
\* file once.
C1_CycleTerminates ==
    (pc = "done" /\ PageReadable /\ Cyclic(fs, tmplFileList, page))
        => (result.outcome = "ok" /\ NoDuplicates(result.bundle))

\* C2: for a page with an acyclic reference graph, no path appears twice in
\* the resolved bundle, also when a template is reachable along more than
\* one reference path.
C2_NoPathTwice ==
    (pc = "done" /\ PageReadable /\ ~Cyclic(fs, tmplFileList, page))
        => (result.outcome = "ok" /\ NoDuplicates(result.bundle))

\* C3: for a readable page with an acyclic reference graph, the bundle as a
\* set is the page plus exactly the candidates reachable from it, and the
\* page is the last element.
C3_BundleIsClosure ==
    (pc = "done" /\ PageReadable /\ ~Cyclic(fs, tmplFileList, page))
        => /\ result.outcome = "ok"
           /\ Range(result.bundle) = {page} \cup Reachable(fs, tmplFileList, page)
           /\ result.bundle[Len(result.bundle)] = page

\* a resolution that went two levels deep: a file of the bundle that the
\* page does not reference itself
C3_Witness ==
    /\ pc = "done"
    /\ PageReadable
    /\ ~Cyclic(fs, tmplFileList, page)
    /\ result.outcome = "ok"
    /\ \E c \in Range(result.bundle) :
          c # page /\ c \notin References(fs, tmplFileList, page)

\* C6: the extractor yields the set of the quoted names of all directives of
\* the text, wherever they stand, several on one line included; a text
\* without directives yields the empty set.
C6_ExtractsEveryDirective ==
    pc = "done" => nameSet = DirectiveNames(segs)

\* C9: Dict returns an error for an odd argument count or a key that is not
\* a string, and otherwise (the empty list included) the mapping of each
\* key to the argument after it; it fails in no other way.
C9_DictContract ==
    pc = "done" =>
        LET keyIdx == { i \in DOMAIN values : i % 2 = 1 }
        IN  IF Len(values) % 2 # 0 \/ \E i \in keyIdx : values[i].kind # "string"
            THEN dictResult.kind = "error"
            ELSE /\ dictResult.kind = "ok"
                 /\ DOMAIN dictResult.dict = { values[i].val : i \in keyIdx }
                 /\ \A k \in DOMAIN dictResult.dict :
                       \E i \in keyIdx : values[i].val = k /\ dictResult.dict[k] = values[i + 1]

(***************************************************************************)
(* The path mapping as the claims describe it, on the request path alone.  *)
(***************************************************************************)
EndsWith(s, suffix) ==
    /\ Len(s) >= Len(suffix)
    /\ SubSeq(s, Len(s) - Len(suffix) + 1, Len(s)) = suffix

RECURSIVE LastElement(_)
LastElement(p) ==
    IF p = <<>> \/ p[Len(p)] = Slash THEN <<>>
    ELSE Append(LastElement(SubSeq(p, 1, Len(p) - 1)), p[Len(p)])

NoExtension(p) == Dot \notin Range(LastElement(p))

IsPagePath(p) == NoExtension(p) \/ EndsWith(p, ExtHtml) \/ EndsWith(p, ExtGohtml)

ExpectedPage(p) ==
    IF NoExtension(p)
    THEN <<"s", "r", "c">> \o (IF p[Len(p)] = Slash THEN SubSeq(p, 1, Len(p) - 1) ELSE p)
         \o <<"/", "i", "n", "d", "e", "x", ".", "g", "o", "h", "t", "m", "l">>
    ELSE IF EndsWith(p, ExtHtml)
    THEN <<"s", "r", "c">> \o SubSeq(p, 1, Len(p) - Len(<<"h", "t", "m", "l">>)) \o Gohtml
    ELSE <<"s", "r", "c">> \o p

Returned(r) == reqs[r].pc = "done"
ResolverCalled(r) == reqs[r].resolveArg # <<>>
PageUnreadable(r) == reqs[r].pageGone
DictMisused(r) ==
    /\ reqs[r].dictCalled
    /\ reqs[r].t[Base(reqs[r].curSrc)].dict \in {"odd", "nonstring"}

\* C4 as stated: a page whose template calls dict with an odd number of
\* arguments or a key that is not a string is answered with a 400-class
\* status, never with a success status.
C4_MisuseIsBadRequest ==
    \A r \in Requests :
        (Returned(r) /\ DictMisused(r)) => reqs[r].status \in 400..499

\* C4 amended: a page whose template calls dict with an odd number of
\* arguments or a key that is not a string fails in t.Execute, the handler
\* drops that error, and the response has the status 200.
C4_MisuseIsDropped ==
    \A r \in Requests :
        (Returned(r) /\ DictMisused(r))
            => (reqs[r].execErr /\ reqs[r].status = StatusOK /\ reqs[r].body # "error")

C4_Witness ==
    \E r \in Requests :
        Returned(r) /\ DictMisused(r) /\ reqs[r].executed /\ reqs[r].body = "partial"

\* C5: when the page file cannot be read the handler answers 400 with no
\* body, compiles and executes nothing and does not panic (the process
\* goes down only by a request whose page was read); a nested candidate
\* that cannot be read never gives this response.
C5_UnreadablePage ==
    /\ \A r \in Requests :
          (reqs[r].pc \in {"done", "crashed"} /\ ResolverCalled(r) /\ PageUnreadable(r))
              => /\ Returned(r)
                 /\ reqs[r].status = StatusBadRequest
                 /\ reqs[r].body = "none"
                 /\ ~reqs[r].compiled
                 /\ ~reqs[r].executed
                 /\ ~reqs[r].panicked
    /\ \A r \in Requests :
          (Returned(r) /\ ResolverCalled(r) /\ ~PageUnreadable(r))
              => ~(reqs[r].status = StatusBadRequest /\ reqs[r].body = "none")
    /\ ~up => \E r \in Requests : reqs[r].pc = "crashed" /\ ~PageUnreadable(r)

\* one request for a missing page has returned, and one whose page is there
\* and whose nested candidate is not
C5_Witness ==
    \E r, q \in Requests :
        /\ Returned(r) /\ ResolverCalled(r) /\ PageUnreadable(r)
        /\ Returned(q) /\ ResolverCalled(q) /\ ~PageUnreadable(q)
        /\ \E i \in DOMAIN reqs[q].filterTmpl : ReadFile(fs, reqs[q].filterTmpl[i]).err
        /\ up

\* C7: under every interleaving of the handlers, each request ends with the
\* status and the bundle it has when it is handled alone, and the candidate
\* list stays as it was collected at startup.
C7_SameAsAlone ==
    /\ tmplFileList = CollectFiles(TmplDir, TmplEntries, TRUE)
    /\ \A r \in Requests :
          Returned(r) =>
              /\ reqs[r].status =
                     RunAloneV2(fs, tmplFileList, [req |-> NewReq(reqs[r].path), err |-> "nil"]).status
              /\ reqs[r].filterTmpl =
                     RunAloneV2(fs, tmplFileList, [req |-> NewReq(reqs[r].path), err |-> "nil"]).filterTmpl

\* C8: a path without extension maps to src/<p>/index.gohtml, a path ending
\* in .html to src/<p> with the final html replaced by gohtml, a path
\* ending in .gohtml to src/<p>; the mapped path ends in .gohtml and is
\* the path given to the resolver.
C8_PathMapping ==
    \A r \in Requests :
        (reqs[r].pc \in {"done", "crashed"} /\ IsPagePath(reqs[r].path))
            => /\ reqs[r].curSrc = ExpectedPage(reqs[r].path)
               /\ EndsWith(reqs[r].curSrc, ExtGohtml)
               /\ reqs[r].resolveArg = reqs[r].curSrc

C8_Witness ==
    \E r, q \in Requests :
        /\ Returned(r) /\ EndsWith(reqs[r].path, ExtHtml) /\ ResolverCalled(r)
        /\ Returned(q) /\ NoExtension(reqs[q].path) /\ ResolverCalled(q)

\* C10: for a path with another extension the handler calls neither the
\* resolver nor the compiler and writes the bytes of the file to the
\* response.
C10_StaticFileServed ==
    \A r \in Requests :
        (Returned(r) /\ ~IsPagePath(reqs[r].path))
            => /\ ~ResolverCalled(r)
               /\ ~reqs[r].compiled
               /\ reqs[r].body = "file"

====
